---- MODULE Spec2Model ----
(***************************************************************************)
(* Rate limiter of goexpert-rate-limiter: the decision engine              *)
(* (RateLimiter.CheckLimit, getKeyAndLimit), the Redis-backed storage      *)
(* (RedisStorage.Increment / SetBlock / IsBlocked) and the Redis commands  *)
(* they issue (INCR, EXPIRE, SET with expiry, EXISTS), over discrete time. *)
(*                                                                         *)
(* Time is counted in ticks, TicksPerSecond ticks to the second, and kept   *)
(* relative to the present: a Redis key carries the ticks it has left to   *)
(* live (its TTL), a LimitResult's ResetTime is its distance from          *)
(* time.Now().  Each client issues CheckLimit calls one after another for  *)
(* a fixed (ip, token) pair; the calls of different clients interleave at  *)
(* the store calls, the only points where a call touches shared state.     *)
(* Each client is served by a RateLimiter instance of its own; the         *)
(* instances are built from one Config and share the store.                *)
(* A returned call carries the response of the HTTP middleware to it.  The  *)
(* store's Get, SetBlock and Close can also be called directly.            *)
(***************************************************************************)
EXTENDS Integers, Sequences, FiniteSets, TLC

\* ---------------------------------------------------------------- bounds
TicksPerSecond == 3
MaxBlockSeconds == 1
MaxLimit == 2

Clients == {"c1", "c2"}
IPs == {"a", "b"}
Tokens == {"", "a", "t"}
OverrideTokens == {"t"}

\* ------------------------------------------------------------ variables
VARIABLES
    db,         \* the Redis keyspace: redis key -> [val, ttl]
    rl,         \* the limit policy (Config) the engines are built from
    engines,    \* engines[c]: the fields of the RateLimiter that serves client c
    request,    \* request[c]: the headers and RemoteAddr of client c's requests
    ip,         \* ip[c], token[c]: the request arguments of client c
    token,
    pc,         \* where c's CheckLimit call stands
    key,        \* locals of c's call: key, limit (line 48), count (line 66)
    limit,
    count,
    calls,      \* the store calls c's call has made so far, in order
    out,        \* the call that returned in the last step, with what it returned
    grants,     \* per live counter: allowed decisions given in its lifetime
    win,        \* per rate key: calls made since the key was last fresh, none failed
    nth,        \* c's call is the nth of its key's window (0: not tracked)
    seen,       \* the counter value c's Increment found (0: none)
    due,        \* per rate key: what is left of the duration of its last SetBlock
    lapsed,     \* rate keys whose block duration has ended, no call made since
    after,      \* c's call is the first since its key's block duration ended
    arrivals,   \* per rate key: ages of the paced requests of the last second
    ret,        \* the store call made in the last step, with its reply
    issued,     \* per live counter: the counts its Increment calls returned
    closed      \* the Redis client has been closed

policy == <<rl, engines, request, ip, token>>
vars   == <<db, rl, engines, request, ip, token, pc, key, limit, count, calls, out,
            grants, win, nth, seen, due, lapsed, after, arrivals,
            ret, issued, closed>>

\* ------------------------------------------------- finite-map utilities
Put(f, k, v) == [x \in DOMAIN f \cup {k} |-> IF x = k THEN v ELSE f[x]]
Drop(f, ks) == [x \in DOMAIN f \ ks |-> f[x]]
Lookup(f, k, dflt) == IF k \in DOMAIN f THEN f[k] ELSE dflt
Max0(n) == IF n < 0 THEN 0 ELSE n
UpTo(n, cap) == IF n > cap THEN cap ELSE n

\* ------------------------------------------------------ Redis commands
\* A key with no expiry has ttl = NoExpiry (what TTL reports as -1).
NoExpiry == -1

\* A variant of INCR that writes 1 instead of adding 1.
RedisIncrSet(d, rk) == Put(d, rk, [val |-> 1, ttl |-> Lookup(d, rk, [ttl |-> NoExpiry]).ttl])

\* INCR: a missing key counts from 0 and gets no expiry; an existing key
\* keeps its expiry.
RedisIncr(d, rk) ==
    IF rk \in DOMAIN d
    THEN Put(d, rk, [val |-> d[rk].val + 1, ttl |-> d[rk].ttl])
    ELSE Put(d, rk, [val |-> 1, ttl |-> NoExpiry])

\* A variant of EXPIRE that leaves a key that already has an expiry alone
\* (EXPIRE ... NX): the expiry is set by the first increment only.
RedisExpireNX(d, rk, expiration) ==
    IF rk \notin DOMAIN d THEN d
    ELSE IF d[rk].ttl # NoExpiry THEN d
    ELSE IF expiration <= 0 THEN Drop(d, {rk})
    ELSE Put(d, rk, [val |-> d[rk].val, ttl |-> expiration])

\* EXPIRE key seconds: the key lives that long from now; a value <= 0 deletes it.
RedisExpire(d, rk, expiration) ==
    IF rk \notin DOMAIN d THEN d
    ELSE IF expiration <= 0 THEN Drop(d, {rk})
    ELSE Put(d, rk, [val |-> d[rk].val, ttl |-> expiration])

\* A variant of Set that drops the expiration.
RedisSetForever(d, rk, v, expiration) == Put(d, rk, [val |-> v, ttl |-> NoExpiry])

\* client.Set(key, value, expiration): go-redis sends EX/PX only when
\* expiration > 0; otherwise a plain SET, which leaves the key without expiry.
\* SET always replaces the value and the previous expiry.
RedisSet(d, rk, v, expiration) ==
    Put(d, rk, [val |-> v, ttl |-> IF expiration > 0 THEN expiration ELSE NoExpiry])

\* EXISTS: expired keys are removed as the clock advances (see Tick).
RedisExists(d, rk) == rk \in DOMAIN d

\* One tick passes: the keys in their last tick expire, the others age.
Expiring(d) == {rk \in DOMAIN d : d[rk].ttl = 1}

Aged(d) ==
    [rk \in DOMAIN d \ Expiring(d) |->
        [val |-> d[rk].val, ttl |-> IF d[rk].ttl = NoExpiry THEN NoExpiry ELSE d[rk].ttl - 1]]

\* --------------------------------------------------------- RedisStorage
CountKey(k) == "rate_limit:" \o k

\* A variant that keeps the block flag under the counter's prefix.
BlockKeyShared(k) == "rate_limit:" \o k

BlockKey(k) == "blocked:" \o k

\* Increment: MULTI; INCR countKey; EXPIRE countKey window; EXEC.
\* Returns the keyspace after the transaction and INCR's reply.
\* A variant without the EXPIRE.
StorageIncrementNoExpire(d, k, window) ==
    LET d1 == RedisIncr(d, CountKey(k))
    IN  [db |-> d1, count |-> d1[CountKey(k)].val]

StorageIncrement(d, k, window) ==
    LET d1 == RedisIncr(d, CountKey(k))
    IN  [db |-> RedisExpire(d1, CountKey(k), window), count |-> d1[CountKey(k)].val]

StorageSetBlock(d, k, duration) == RedisSet(d, BlockKey(k), 1, duration)

\* GET: the value, or redis.Nil when the key is missing.
RedisGet(d, rk) ==
    IF rk \in DOMAIN d THEN [nil |-> FALSE, val |-> d[rk].val]
    ELSE [nil |-> TRUE, val |-> 0]

\* A variant of Get that also renews the counter's expiry.
StorageGetTouch(d, k) ==
    [db |-> RedisExpire(d, CountKey(k), TicksPerSecond),
     count |-> RedisGet(d, CountKey(k)).val]

\* Get: GET countKey; redis.Nil gives 0 and no error, otherwise the value
\* parsed as an integer (INCR keeps it one).  The keyspace is left as it is.
StorageGet(d, k) ==
    LET g == RedisGet(d, CountKey(k))
    IN  [db |-> d, count |-> IF g.nil THEN 0 ELSE g.val]

\* Close: client.Close().  The go-redis connection pool closes once; closing
\* a closed client returns the error "redis: client is closed".
StorageClose(isClosed) == [closed |-> TRUE, err |-> isClosed]

\* A variant that looks at the counter instead of the block flag.
StorageIsBlockedByCount(d, k) == RedisExists(d, CountKey(k))

StorageIsBlocked(d, k) == RedisExists(d, BlockKey(k))

\* ---------------------------------------------------------- RateLimiter
\* A variant that leaves out the "ip:" and "token:" prefixes.
getKeyAndLimitBare(r, i, tk) ==
    IF tk # ""
    THEN [key |-> tk,
          limit |-> IF tk \in DOMAIN r.tokenLimits THEN r.tokenLimits[tk]
                    ELSE r.defaultTokenLimit]
    ELSE [key |-> i, limit |-> r.defaultIPLimit]

\* A variant that prefers the ip to the token.
getKeyAndLimitIPFirst(r, i, tk) ==
    IF i # ""
    THEN [key |-> "ip:" \o i, limit |-> r.defaultIPLimit]
    ELSE [key |-> "token:" \o tk,
          limit |-> IF tk \in DOMAIN r.tokenLimits THEN r.tokenLimits[tk]
                    ELSE r.defaultTokenLimit]

\* A variant that takes a token's own limit only when it is positive.
getKeyAndLimitPositive(r, i, tk) ==
    IF tk # ""
    THEN [key |-> "token:" \o tk,
          limit |-> IF tk \in DOMAIN r.tokenLimits /\ r.tokenLimits[tk] > 0
                    THEN r.tokenLimits[tk] ELSE r.defaultTokenLimit]
    ELSE [key |-> "ip:" \o i, limit |-> r.defaultIPLimit]

getKeyAndLimit(r, i, tk) ==
    IF tk # ""
    THEN IF tk \in DOMAIN r.tokenLimits
         THEN [key |-> "token:" \o tk, limit |-> r.tokenLimits[tk]]
         ELSE [key |-> "token:" \o tk, limit |-> r.defaultTokenLimit]
    ELSE [key |-> "ip:" \o i, limit |-> r.defaultIPLimit]

\* The window CheckLimit passes to Increment: time.Second.
\* A variant with a window of two seconds.
WindowTwoSeconds == 2 * TicksPerSecond

Window == TicksPerSecond

\* Variants of the limit test, for checking that the properties depend on it.
ExceededOffByOne(cnt, lim) == cnt > lim + 1
ExceededAtLimit(cnt, lim) == cnt >= lim
ExceededTwice(cnt, lim) == cnt > 2 * lim
ExceededOnce(cnt, lim) == cnt = lim + 1
ExceededPositive(cnt, lim) == lim > 0 /\ cnt > lim

Exceeded(cnt, lim) == cnt > lim

\* A variant that takes the count before the increment.
RemainingBefore(lim, cnt) == IF lim - (cnt - 1) < 0 THEN 0 ELSE lim - (cnt - 1)

Remaining(lim, cnt) == IF lim - cnt < 0 THEN 0 ELSE lim - cnt

NoResult == [allowed |-> FALSE, remaining |-> 0, resetTime |-> 0, blocked |-> FALSE]

\* A variant whose reset time is the time of the call.
BlockedResultNow(r) ==
    [allowed |-> FALSE, remaining |-> 0, resetTime |-> 0, blocked |-> TRUE]

\* The reset time is kept as the time left until it, counted from the return
\* of the call: time.Now().Add(d) is d.
BlockedResult(r) ==
    [allowed |-> FALSE, remaining |-> 0, resetTime |-> r.blockDuration, blocked |-> TRUE]

AllowedResult(lim, cnt) ==
    [allowed |-> TRUE, remaining |-> Remaining(lim, cnt), resetTime |-> Window,
     blocked |-> FALSE]

\* ----------------------------------------------------------- middleware
\* The response of the HTTP middleware to CheckLimit's outcome: the status
\* code it writes (0: none, the next handler writes it), whether it aborts the
\* chain, whether the next handler runs, and the headers it sets.
NoHeaders == <<>>

RateLimitHeaders(res) ==
    [h \in {"X-RateLimit-Remaining", "X-RateLimit-Reset"} |->
        IF h = "X-RateLimit-Remaining" THEN res.remaining ELSE res.resetTime]

NoResponse ==
    [code |-> 0, body |-> "", aborted |-> FALSE, next |-> FALSE, headers |-> NoHeaders]

\* A variant that lets the request through when CheckLimit fails.
RateLimiterMiddlewareFailOpen(isErr, res) ==
    IF isErr
    THEN [code |-> 0, body |-> "", aborted |-> FALSE, next |-> TRUE, headers |-> NoHeaders]
    ELSE IF ~res.allowed
    THEN [code |-> 429,
          body |-> "you have reached the maximum number of requests or actions allowed within a certain time frame",
          aborted |-> TRUE, next |-> FALSE, headers |-> RateLimitHeaders(res)]
    ELSE [code |-> 0, body |-> "", aborted |-> FALSE, next |-> TRUE,
          headers |-> RateLimitHeaders(res)]

RateLimiterMiddleware(isErr, res) ==
    IF isErr
    THEN [code |-> 500, body |-> "Internal server error", aborted |-> TRUE,
          next |-> FALSE, headers |-> NoHeaders]
    ELSE IF ~res.allowed
    THEN [code |-> 429,
          body |-> "you have reached the maximum number of requests or actions allowed within a certain time frame",
          aborted |-> TRUE, next |-> FALSE, headers |-> RateLimitHeaders(res)]
    ELSE [code |-> 0, body |-> "", aborted |-> FALSE, next |-> TRUE,
          headers |-> RateLimitHeaders(res)]

\* Header values and addresses are sequences of characters.  An ip address
\* is written as one letter: the letters of IPs are the canonical spellings,
\* their capitals are other spellings of the same addresses (as "2001:DB8::1"
\* is of "2001:db8::1"), and any other text is not an ip address.
Canonical(ch) == CASE ch = "A" -> "a" [] ch = "B" -> "b" [] OTHER -> ch

RECURSIVE String(_)
String(s) == IF s = <<>> THEN "" ELSE s[1] \o String(Tail(s))

\* net.ParseIP(s) and IP.String(): nil unless the whole of s is one address;
\* String gives the canonical spelling.
ParseIP(s) ==
    IF Len(s) = 1 /\ Canonical(s[1]) \in IPs
    THEN [nil |-> FALSE, string |-> Canonical(s[1])]
    ELSE [nil |-> TRUE, string |-> ""]

\* net.SplitHostPort(hostport): the text before and after the last colon; an
\* error when there is no colon ("missing port in address") or the host has
\* one of its own ("too many colons in address").
SplitHostPort(hostport) ==
    LET colons == {i \in 1..Len(hostport) : hostport[i] = ":"}
        last == CHOOSE i \in colons : \A j \in colons : j <= i
    IN  IF colons = {} \/ colons # {last}
        THEN [host |-> <<>>, port |-> <<>>, err |-> TRUE]
        ELSE [host |-> SubSeq(hostport, 1, last - 1),
              port |-> SubSeq(hostport, last + 1, Len(hostport)),
              err |-> FALSE]

\* A variant that takes the first address of an X-Forwarded-For chain (the
\* text before the first comma).
getClientIPFirstInChain(rq) ==
    LET commas == {i \in 1..Len(rq.xff) : rq.xff[i] = ","}
        first == IF commas = {} THEN rq.xff
                 ELSE SubSeq(rq.xff, 1,
                             (CHOOSE i \in commas : \A j \in commas : i <= j) - 1)
    IN  IF rq.xff # <<>> /\ ~ParseIP(first).nil
        THEN ParseIP(first).string
        ELSE IF rq.xri # <<>> /\ ~ParseIP(rq.xri).nil
        THEN ParseIP(rq.xri).string
        ELSE IF SplitHostPort(rq.remoteAddr).err
        THEN String(rq.remoteAddr)
        ELSE String(SplitHostPort(rq.remoteAddr).host)

\* getClientIP: X-Forwarded-For if it parses, else X-Real-IP if it parses,
\* else the host of RemoteAddr, or RemoteAddr itself if it does not split.
getClientIP(rq) ==
    IF rq.xff # <<>> /\ ~ParseIP(rq.xff).nil
    THEN ParseIP(rq.xff).string
    ELSE IF rq.xri # <<>> /\ ~ParseIP(rq.xri).nil
    THEN ParseIP(rq.xri).string
    ELSE IF SplitHostPort(rq.remoteAddr).err
    THEN String(rq.remoteAddr)
    ELSE String(SplitHostPort(rq.remoteAddr).host)

\* A request that comes straight from ip i: no proxy header.
DirectRequest(i) == [xff |-> <<>>, xri |-> <<>>, remoteAddr |-> <<i, ":", "p">>]

\* Requests with proxy headers: absent, an address, another spelling of it,
\* text that is no address, a chain of addresses; and with a RemoteAddr with
\* or without a port.
Requests ==
    [xff : {<<>>, <<"a">>, <<"A">>, <<"x">>, <<"a", ",", "b">>},
     xri : {<<>>, <<"B">>, <<"x">>},
     remoteAddr : {<<"a", ":", "p">>, <<"b">>}]

\* The counter values the model follows: Increment waits at CountCap.
CountCap == MaxLimit + 2

\* config.Load: limits and the block duration (whole seconds) from the
\* environment; New copies them into the RateLimiter.
Policies ==
    [defaultIPLimit : {1, MaxLimit},
     defaultTokenLimit : {MaxLimit},
     blockDuration : {s * TicksPerSecond : s \in {0, MaxBlockSeconds}},
     tokenLimits : [OverrideTokens -> {1}]]

\* The (ip, token) pairs requests carry: any ip without a token, and ip "a" with
\* any token (the ip of a request that carries a token is not looked at).
\* Client c1 sends from ip "a", with no token or with token "a"; client c2
\* sends any pair.
Identities == {<<i, tk>> \in IPs \X Tokens : tk = "" \/ i = "a"}

ClientIdentities ==
    {ids \in [Clients -> Identities] : ids["c1"] \in {<<"a", "">>, <<"a", "a">>}}

\* Policies whose token limits go from 0 to above the default token limit, and
\* requests that carry the same or different tokens from different ips.
TokenPolicies ==
    [defaultIPLimit : {1},
     defaultTokenLimit : {MaxLimit},
     blockDuration : {MaxBlockSeconds * TicksPerSecond},
     tokenLimits : [OverrideTokens -> {0, 1, MaxLimit + 1}]]

TokenIdentities ==
    {ids \in [Clients -> IPs \X Tokens] :
        /\ ids["c1"][1] = "a" /\ ids["c1"][2] # ""
        /\ ids["c2"][1] = "b"}

\* Policies whose default limits include 0 and a negative value: Load takes
\* them from the environment with strconv.Atoi and does not check their sign.
LimitPolicies ==
    [defaultIPLimit : {-1, 0, 1, MaxLimit},
     defaultTokenLimit : {0},
     blockDuration : {MaxBlockSeconds * TicksPerSecond},
     tokenLimits : [OverrideTokens -> {1}]]

\* ----------------------------------------------------------------- Init
\* A variant of New that swaps the two default limits.
NewSwapped(config) ==
    [defaultIPLimit |-> config.defaultTokenLimit,
     defaultTokenLimit |-> config.defaultIPLimit,
     blockDuration |-> config.blockDuration,
     tokenLimits |-> config.tokenLimits]

\* New(storage, config): the RateLimiter's fields are the Config's.
New(config) ==
    [defaultIPLimit |-> config.defaultIPLimit,
     defaultTokenLimit |-> config.defaultTokenLimit,
     blockDuration |-> config.blockDuration,
     tokenLimits |-> config.tokenLimits]

\* A store call's reply: (val, err).  A call on a working client may succeed
\* with v or fail (StorageUnavailable) with the zero value; on a closed client
\* it fails.
Replies(isClosed, v, zero) ==
    IF isClosed THEN {[val |-> zero, err |-> TRUE]}
    ELSE {[val |-> v, err |-> FALSE], [val |-> zero, err |-> TRUE]}

\* A variant of the error test that never sees an error.
FailedNever(reply) == FALSE

\* err != nil (lines 52, 67, 74).
Failed(reply) == reply.err

NoRet == [op |-> "", key |-> "", arg |-> 0, val |-> 0, err |-> FALSE]

NoCallOut ==
    [status |-> "none", client |-> "", key |-> "", limit |-> 0, count |-> 0,
     result |-> NoResult, calls |-> <<>>, nth |-> 0, seen |-> 0, after |-> FALSE,
     response |-> NoResponse]

\* No call has been made and the store is empty.
Quiet ==
    /\ db = <<>>
    /\ pc = [c \in Clients |-> "idle"]
    /\ key = [c \in Clients |-> ""]
    /\ limit = [c \in Clients |-> 0]
    /\ count = [c \in Clients |-> 0]
    /\ calls = [c \in Clients |-> <<>>]
    /\ out = NoCallOut
    /\ grants = <<>>
    /\ win = <<>>
    /\ nth = [c \in Clients |-> 0]
    /\ seen = [c \in Clients |-> 0]
    /\ due = <<>>
    /\ lapsed = {}
    /\ after = [c \in Clients |-> FALSE]
    /\ arrivals = <<>>
    /\ ret = NoRet
    /\ issued = <<>>
    /\ closed = FALSE

\* The engines are built from one of the policies; every client's requests
\* come straight from its ip, with its token.
Start(policies, identities) ==
    /\ rl \in policies
    /\ engines = [c \in Clients |-> New(rl)]
    /\ \E ids \in identities :
          /\ request = [c \in Clients |-> DirectRequest(ids[c][1])]
          /\ token = [c \in Clients |-> ids[c][2]]
    /\ ip = [c \in Clients |-> getClientIP(request[c])]
    /\ Quiet

Init == Start(Policies, ClientIdentities)

InitTokens == Start(TokenPolicies, TokenIdentities)

InitLimits == Start(LimitPolicies, ClientIdentities)

\* Client c1 sends requests with proxy headers and no token; client c2 sends
\* straight from ip "b".
InitHeaders ==
    /\ rl \in {p \in Policies : p.defaultIPLimit = 1 /\ p.blockDuration > 0}
    /\ engines = [c \in Clients |-> New(rl)]
    /\ \E rq \in Requests : request = [c \in Clients |->
                                  IF c = "c1" THEN rq ELSE DirectRequest("b")]
    /\ token = [c \in Clients |-> ""]
    /\ ip = [c \in Clients |-> getClientIP(request[c])]
    /\ Quiet

\* One policy and two requesters, for the runs that also use the store
\* directly.
InitStore ==
    Start({p \in Policies : p.defaultIPLimit = 1 /\ p.blockDuration > 0},
          {ids \in ClientIdentities : ids["c1"] = <<"a", "">> /\ ids["c2"] = <<"a", "a">>})

\* -------------------------------------------------------------- actions
\* Arrivals are kept by age, for one second.
Older(s) == [i \in 1..Len(SelectSeq(s, LAMBDA a : a < TicksPerSecond)) |->
                SelectSeq(s, LAMBDA a : a < TicksPerSecond)[i] + 1]

\* Client c's call returns: `out` holds what it returned (status "result" with
\* the LimitResult, or "error") and the middleware's response to it, and the
\* call's locals are gone.
Finish(c, status, res, k, lim, cnt, log, n, sn, aft) ==
    /\ out' = [status |-> status, client |-> c, key |-> k, limit |-> lim, count |-> cnt,
               result |-> res, calls |-> log, nth |-> n, seen |-> sn, after |-> aft,
               response |-> RateLimiterMiddleware(status = "error", res)]
    /\ pc' = [pc EXCEPT ![c] = "idle"]
    /\ key' = [key EXCEPT ![c] = ""]
    /\ limit' = [limit EXCEPT ![c] = 0]
    /\ count' = [count EXCEPT ![c] = 0]
    /\ calls' = [calls EXCEPT ![c] = <<>>]
    /\ nth' = [nth EXCEPT ![c] = 0]
    /\ seen' = [seen EXCEPT ![c] = 0]
    /\ after' = [after EXCEPT ![c] = FALSE]

\* Time passes: one tick goes by and Redis drops the keys whose expiry has
\* been reached.
Tick ==
    /\ out' = NoCallOut
    /\ ret' = NoRet
    /\ issued' = Drop(issued, Expiring(db))
    /\ LET gone == Expiring(db)
           goneKeys == {k \in DOMAIN win : CountKey(k) \in gone}
           ended == {k \in DOMAIN due : due[k] = 1}
       IN  /\ db' = Aged(db)
           /\ grants' = Drop(grants, gone)
           /\ win' = Drop(win, goneKeys)
           /\ nth' = [c \in Clients |-> IF key[c] \in goneKeys THEN 0 ELSE nth[c]]
           /\ due' = [k \in DOMAIN due \ ended |-> due[k] - 1]
           /\ lapsed' = lapsed \cup ended
           /\ arrivals' = [k \in DOMAIN arrivals |-> Older(arrivals[k])]
    /\ UNCHANGED <<policy, pc, key, limit, count, calls, seen, after, closed>>

\* CheckLimit, lines 46-63: resolve key and limit, call IsBlocked, and return
\* the blocked result when the key is blocked.  IsBlocked may fail
\* (StorageUnavailable): the call then returns the error.
IsBlockedVia(r, c) ==
    /\ pc[c] = "idle"
    /\ ip[c] = getClientIP(request[c])
    /\ LET kl == getKeyAndLimit(r, ip[c], token[c])
           k == kl.key
           log == <<[op |-> "IsBlocked", key |-> k, arg |-> 0]>>
           fresh == ~RedisExists(db, CountKey(k)) /\ ~RedisExists(db, BlockKey(k))
           n == IF fresh THEN 1
                ELSE IF k \in DOMAIN win THEN UpTo(win[k] + 1, Max0(kl.limit) + 1)
                ELSE 0
           w == IF n = 0 THEN win ELSE Put(win, k, n)
           aft == k \in lapsed
       IN  /\ lapsed' = lapsed \ {k}
           /\ \E reply \in Replies(closed, StorageIsBlocked(db, k), FALSE) :
                /\ ret' = [op |-> "IsBlocked", key |-> k, arg |-> 0,
                           val |-> IF reply.val THEN 1 ELSE 0, err |-> reply.err]
                /\ win' = IF reply.err THEN Drop(win, {k}) ELSE w
                /\ \/ /\ Failed(reply)
                      /\ Finish(c, "error", NoResult, k, kl.limit, 0, log, 0, 0, aft)
                   \/ /\ ~Failed(reply) /\ reply.val
                      /\ Finish(c, "result", BlockedResult(r), k, kl.limit, 0, log, n, 0, aft)
                   \/ /\ ~Failed(reply) /\ ~reply.val
                      /\ pc' = [pc EXCEPT ![c] = "increment"]
                      /\ key' = [key EXCEPT ![c] = k]
                      /\ limit' = [limit EXCEPT ![c] = kl.limit]
                      /\ calls' = [calls EXCEPT ![c] = log]
                      /\ nth' = [nth EXCEPT ![c] = n]
                      /\ after' = [after EXCEPT ![c] = aft]
                      /\ out' = NoCallOut
                      /\ UNCHANGED <<count, seen>>
    /\ UNCHANGED <<db, policy, grants, due, issued, closed>>

\* Client c's call is made on the RateLimiter that serves c.
IsBlockedCall(c) == IsBlockedVia(engines[c], c)

\* CheckLimit, lines 65-97: call Increment; if the count exceeds the limit go
\* on to SetBlock, otherwise return the allowed result.  Increment may fail.
IncrementCall(c) ==
    /\ pc[c] = "increment"
    /\ Lookup(db, CountKey(key[c]), [val |-> 0]).val < CountCap
    /\ LET log == Append(calls[c], [op |-> "Increment", key |-> key[c], arg |-> Window])
           r == StorageIncrement(db, key[c], Window)
           ck == CountKey(key[c])
           sn == Lookup(db, ck, [val |-> 0]).val
       IN  \E reply \in Replies(closed, r.count, 0) :
             /\ ret' = [op |-> "Increment", key |-> key[c], arg |-> Window,
                        val |-> reply.val, err |-> reply.err]
             /\ db' = IF reply.err THEN db ELSE r.db
             /\ issued' = IF reply.err THEN issued
                          ELSE Put(issued, ck, Append(Lookup(issued, ck, <<>>), reply.val))
             /\ \/ /\ Failed(reply)
                   /\ Finish(c, "error", NoResult, key[c], limit[c], 0, log, 0, 0, after[c])
                   /\ win' = Drop(win, {key[c]})
                   /\ UNCHANGED grants
                \/ /\ ~Failed(reply) /\ ~Exceeded(reply.val, limit[c])
                   /\ grants' = Put(grants, ck, Lookup(grants, ck, 0) + 1)
                   /\ Finish(c, "result", AllowedResult(limit[c], reply.val), key[c],
                             limit[c], reply.val, log, nth[c], sn, after[c])
                   /\ UNCHANGED win
                \/ /\ ~Failed(reply) /\ Exceeded(reply.val, limit[c])
                   /\ grants' = Put(grants, ck, Lookup(grants, ck, 0))
                   /\ pc' = [pc EXCEPT ![c] = "setBlock"]
                   /\ count' = [count EXCEPT ![c] = reply.val]
                   /\ seen' = [seen EXCEPT ![c] = sn]
                   /\ calls' = [calls EXCEPT ![c] = log]
                   /\ out' = NoCallOut
                   /\ UNCHANGED <<key, limit, nth, after, win>>
    /\ UNCHANGED <<policy, due, lapsed, arrivals, closed>>

\* CheckLimit, lines 72-84: call SetBlock and return the blocked result.
\* SetBlock may fail.
SetBlockVia(r, c) ==
    /\ pc[c] = "setBlock"
    /\ LET log == Append(calls[c], [op |-> "SetBlock", key |-> key[c], arg |-> r.blockDuration])
           k == key[c]
       IN  \E reply \in Replies(closed, 0, 0) :
             /\ ret' = [op |-> "SetBlock", key |-> k, arg |-> r.blockDuration,
                        val |-> 0, err |-> reply.err]
             /\ db' = IF reply.err THEN db ELSE StorageSetBlock(db, k, r.blockDuration)
             /\ due' = IF reply.err THEN due
                       ELSE IF r.blockDuration <= 0 THEN Drop(due, {k})
                       ELSE Put(due, k, r.blockDuration)
             /\ lapsed' = IF reply.err THEN lapsed
                          ELSE IF r.blockDuration <= 0 THEN lapsed \cup {k}
                          ELSE lapsed \ {k}
             /\ win' = IF reply.err THEN Drop(win, {k}) ELSE win
             /\ \/ /\ Failed(reply)
                   /\ Finish(c, "error", NoResult, k, limit[c], count[c], log, 0, seen[c],
                             after[c])
                \/ /\ ~Failed(reply)
                   /\ Finish(c, "result", BlockedResult(r), k, limit[c], count[c], log,
                             nth[c], seen[c], after[c])
    /\ UNCHANGED <<policy, grants, arrivals, issued, closed>>

SetBlockCall(c) == SetBlockVia(engines[c], c)

\* The rate keys in use.
RateKeys == {getKeyAndLimit(rl, ip[c], token[c]).key : c \in Clients}

\* The durations a block is set with by a direct user of the store.
BlockDurations == {0, TicksPerSecond, 2 * TicksPerSecond}

\* RedisStorage.Get(key), called on the store directly.
Get(k) ==
    /\ \E reply \in Replies(closed, StorageGet(db, k).count, 0) :
          /\ ret' = [op |-> "Get", key |-> k, arg |-> 0, val |-> reply.val,
                     err |-> reply.err]
          /\ db' = IF reply.err THEN db ELSE StorageGet(db, k).db
    /\ out' = NoCallOut
    /\ UNCHANGED <<policy, pc, key, limit, count, calls, grants, win, nth, seen,
                   due, lapsed, after, arrivals, issued, closed>>

\* RedisStorage.SetBlock(key, duration), called on the store directly.
SetBlock(k, duration) ==
    /\ \E reply \in Replies(closed, 0, 0) :
          /\ ret' = [op |-> "SetBlock", key |-> k, arg |-> duration, val |-> 0,
                     err |-> reply.err]
          /\ db' = IF reply.err THEN db ELSE StorageSetBlock(db, k, duration)
          /\ due' = IF reply.err THEN due
                    ELSE IF duration <= 0 THEN Drop(due, {k})
                    ELSE Put(due, k, duration)
          /\ lapsed' = IF reply.err THEN lapsed
                       ELSE IF duration <= 0 THEN lapsed \cup {k}
                       ELSE lapsed \ {k}
    /\ win' = Drop(win, {k})
    /\ out' = NoCallOut
    /\ UNCHANGED <<policy, pc, key, limit, count, calls, grants, nth, seen,
                   after, arrivals, issued, closed>>

\* RateLimiter.Close: the store's Close.
Close ==
    /\ closed' = StorageClose(closed).closed
    /\ ret' = [op |-> "Close", key |-> "", arg |-> 0, val |-> 0,
               err |-> StorageClose(closed).err]
    /\ out' = NoCallOut
    /\ UNCHANGED <<db, policy, pc, key, limit, count, calls, grants, win, nth, seen,
                   due, lapsed, after, arrivals, issued>>

\* ------------------------------------------------------- specifications
\* Concurrent request handling: the calls of the clients interleave freely.
Next ==
    \/ Tick
    \/ \E c \in Clients : IsBlockedCall(c) /\ UNCHANGED arrivals
    \/ \E c \in Clients : IncrementCall(c)
    \/ \E c \in Clients : SetBlockCall(c)

Spec == Init /\ [][Next]_vars

\* Sequential requests: a call starts only when no other call is in progress.
NoCall == \A c \in Clients : pc[c] = "idle"

NextSeq ==
    \/ Tick
    \/ \E c \in Clients : NoCall /\ IsBlockedCall(c) /\ UNCHANGED arrivals
    \/ \E c \in Clients : IncrementCall(c)
    \/ \E c \in Clients : SetBlockCall(c)

SpecSeq == Init /\ [][NextSeq]_vars

\* Sequential requests that keep to the rate: a client sends a request only if
\* that leaves at most `limit` requests of its key in every one-second interval
\* (both ends included), and a call takes no time.
Paced(c) ==
    LET kl == getKeyAndLimit(rl, ip[c], token[c])
        arr == Append(Lookup(arrivals, kl.key, <<>>), 0)
    IN  /\ Len(arr) <= kl.limit
        /\ arrivals' = Put(arrivals, kl.key, arr)

NextPaced ==
    \/ NoCall /\ Tick
    \/ \E c \in Clients : NoCall /\ Paced(c) /\ IsBlockedCall(c)
    \/ \E c \in Clients : IncrementCall(c)
    \/ \E c \in Clients : SetBlockCall(c)

SpecPaced == Init /\ [][NextPaced]_vars

\* Sequential requests, and between them direct calls of the store's Get,
\* SetBlock and Close.
NextStore ==
    \/ Tick
    \/ \E c \in Clients : NoCall /\ IsBlockedCall(c) /\ UNCHANGED arrivals
    \/ \E c \in Clients : IncrementCall(c)
    \/ \E c \in Clients : SetBlockCall(c)
    \/ \E k \in RateKeys : NoCall /\ Get(k)
    \/ \E k \in RateKeys, d \in BlockDurations : NoCall /\ SetBlock(k, d)
    \/ NoCall /\ Close

SpecStore == InitStore /\ [][NextStore]_vars

\* Sequential requests, with direct calls of the store's Get at any point.
NextGet ==
    \/ Tick
    \/ \E c \in Clients : NoCall /\ IsBlockedCall(c) /\ UNCHANGED arrivals
    \/ \E c \in Clients : IncrementCall(c)
    \/ \E c \in Clients : SetBlockCall(c)
    \/ \E k \in RateKeys : Get(k)

SpecGet == InitStore /\ [][NextGet]_vars

\* Sequential requests that carry tokens, under the token policies.
SpecTokens == InitTokens /\ [][NextSeq]_vars

\* Concurrent request handling for two clients that share ip "a", the second
\* with or without a token, under the policies with a positive block duration.
InitShared ==
    Start({p \in Policies : p.blockDuration > 0},
          {ids \in ClientIdentities : ids["c1"] = <<"a", "">> /\ ids["c2"][1] = "a"})

SpecShared == InitShared /\ [][Next]_vars

\* Sequential requests that carry proxy headers.
SpecHeaders == InitHeaders /\ [][NextSeq]_vars

\* Sequential requests under the policies with limits of 0 and below.
SpecLimits == InitLimits /\ [][NextSeq]_vars

\* Sequential requests with a positive block duration, in behaviours where
\* time goes on (Tick), every client keeps sending requests, and the store
\* calls of a client that keeps calling do not fail for ever.
Answered(c) ==
    /\ \/ NoCall /\ IsBlockedCall(c) /\ UNCHANGED arrivals
       \/ IncrementCall(c)
       \/ SetBlockCall(c)
    /\ ~ret'.err

SpecLive ==
    /\ InitStore
    /\ [][NextSeq]_vars
    /\ WF_vars(Tick)
    /\ \A c \in Clients :
          /\ SF_vars(pc[c] = "idle" /\ Answered(c))
          /\ SF_vars(pc[c] = "increment" /\ Answered(c))
          /\ SF_vars(pc[c] = "setBlock" /\ Answered(c))

\* ----------------------------------------------------------- properties
Rejected(res) == ~res.allowed /\ res.blocked /\ res.remaining = 0

\* The store calls named op in a call's log.
CallsOf(log, op) == SelectSeq(log, LAMBDA e : e.op = op)

\* The call that has just returned got past Increment (which did not fail).
IncrementDone(o) ==
    \/ o.status = "result" /\ Len(o.calls) = 2
    \/ o.status # "none" /\ Len(o.calls) = 3

\* C1: under any interleaving of CheckLimit calls on one rate key, the allowed
\* decisions given during one lifetime of the key's window counter never
\* number more than the key's limit.
C1_AllowedWithinLimit ==
    \A i \in IPs, tk \in Tokens :
        LET kl == getKeyAndLimit(rl, i, tk)
        IN  Lookup(grants, CountKey(kl.key), 0) <= Max0(kl.limit)

\* A call is rejected on its count, after the limit's worth of allowed
\* decisions, while another call on the same key is in progress.
C1_Witness ==
    /\ out.status = "result" /\ ~out.result.allowed /\ out.count > out.limit
    /\ Lookup(grants, CountKey(out.key), 0) = out.limit
    /\ \E o \in Clients : o # out.client /\ pc[o] # "idle" /\ key[o] = out.key

\* C2: from a fresh key, with sequential calls in one window and no failing
\* store call, the k-th call (k <= limit) is allowed, not blocked, and returns
\* remaining = limit - k.
C2_KthCallAllowed ==
    (out.status = "result" /\ out.nth >= 1 /\ out.nth <= out.limit) =>
        /\ out.result.allowed
        /\ ~out.result.blocked
        /\ out.result.remaining = out.limit - out.nth

\* The limit-th call of a window (limit >= 2) returns remaining = 0.
C2_Witness ==
    /\ out.status = "result" /\ out.limit >= 2 /\ out.nth = out.limit
    /\ out.result.allowed /\ out.result.remaining = 0

\* C3: when a call's Increment finds the counter of an unblocked key at the
\* limit, the call makes exactly one SetBlock call, SetBlock(key,
\* blockDuration), and, unless that fails, returns allowed = false,
\* blocked = true, remaining = 0.
C3_CallAtLimitBlocks ==
    (IncrementDone(out) /\ out.seen = out.limit) =>
        /\ CallsOf(out.calls, "SetBlock") =
              <<[op |-> "SetBlock", key |-> out.key, arg |-> rl.blockDuration]>>
        /\ out.status = "result" => Rejected(out.result)

\* A token-keyed call found its counter at the limit and was rejected.
C3_Witness ==
    /\ out.status = "result" /\ IncrementDone(out) /\ out.seen = out.limit
    /\ token[out.client] # "" /\ Rejected(out.result)

\* C4: a key whose requests never number more than its limit in any
\* one-second interval is never rejected and never blocked.
C4_PacedNeverRejected ==
    /\ out.status = "result" => out.result.allowed /\ ~out.result.blocked
    /\ \A k \in RateKeys : ~StorageIsBlocked(db, k)

\* This step is client c's IsBlocked store call answering (without failing).
IsBlockedAnswers(c) ==
    /\ pc[c] = "idle"
    /\ \/ pc'[c] # "idle"
       \/ out'.status = "result" /\ out'.client = c

\* C5: when IsBlocked finds the key's block flag, CheckLimit returns
\* allowed = false, blocked = true, remaining = 0 and no error, having made no
\* other store call, and the key's counter, the counter's expiry and the
\* block's expiry are as they were.
C5_BlockedCallLeavesStore ==
    [][\A c \in Clients :
         LET k == getKeyAndLimit(rl, ip[c], token[c]).key
         IN  (IsBlockedAnswers(c) /\ BlockKey(k) \in DOMAIN db) =>
                 /\ out'.status = "result" /\ out'.client = c
                 /\ Rejected(out'.result)
                 /\ out'.calls = <<[op |-> "IsBlocked", key |-> k, arg |-> 0]>>
                 /\ pc'[c] = "idle"
                 /\ db' = db]_vars

\* A call on a key that is blocked and still has a live counter has returned
\* after its IsBlocked call alone.
C5_Witness ==
    /\ out.status = "result" /\ Len(out.calls) = 1 /\ Rejected(out.result)
    /\ CountKey(out.key) \in DOMAIN db /\ BlockKey(out.key) \in DOMAIN db
    /\ db[BlockKey(out.key)].ttl > 0

\* This step is client c's Increment store call, applied to the store.
IncrementApplied(c) ==
    pc[c] = "increment" /\ pc'[c] # "increment" /\ db' # db

\* C6: no Increment is applied to a key while the key's block flag is active.
C6_NoIncrementWhileBlocked ==
    [][\A c \in Clients :
         IncrementApplied(c) => ~StorageIsBlocked(db, key[c])]_vars

\* This step is client c's SetBlock store call, applied to the store.
SetBlockApplied(c) ==
    pc[c] = "setBlock" /\ out'.status = "result" /\ out'.client = c

\* C7: SetBlock is called once per excess: it is never applied to a key whose
\* block flag is active, so a block's expiry is never pushed later.
C7_SetBlockOncePerExcess ==
    [][\A c \in Clients :
         SetBlockApplied(c) => ~StorageIsBlocked(db, key[c])]_vars

\* C8: with limit >= 1, a block duration of at least the one-second window and
\* sequential calls, the first call made on a key after its block has expired
\* is allowed and not blocked, and the counter restarts at 1
\* (remaining = limit - 1).
C8_FirstCallAfterBlockAllowed ==
    (/\ out.status = "result" /\ out.after
     /\ out.limit >= 1 /\ rl.blockDuration >= TicksPerSecond) =>
        /\ out.result.allowed
        /\ ~out.result.blocked
        /\ out.count = 1
        /\ out.result.remaining = out.limit - 1

\* The first call after a block of at least a second expired is allowed.
C8_Witness ==
    /\ out.status = "result" /\ out.after /\ rl.blockDuration >= TicksPerSecond
    /\ out.result.allowed /\ out.count = 1 /\ out.seen = 0

\* C9: after SetBlock(key, d) the key is blocked at every time before d has
\* gone by and not blocked from then on, for every block duration d >= 0.
C9_BlockSelfExpires ==
    /\ \A k \in DOMAIN due : StorageIsBlocked(db, k)
    /\ \A k \in lapsed : ~StorageIsBlocked(db, k)

\* The rate key of a request, told apart without the key's text: its kind and
\* the ip or token it is made of.
RateId(i, tk) == IF tk # "" THEN <<"token", tk>> ELSE <<"ip", i>>

\* This step is a store call of client c's CheckLimit.
StepOf(c) ==
    \/ pc'[c] # pc[c]
    \/ out'.status # "none" /\ out'.client = c

\* What the store holds for rate key k: its counter and its block flag.
Held(d, k) == [rk \in {CountKey(k), BlockKey(k)} \cap DOMAIN d |-> d[rk]]

\* C10: a CheckLimit call for one rate key leaves the counter and the block
\* flag of every other rate key (another ip, another token, or the token key
\* and the ip key of one string) as they were.
C10_OtherKeysUntouched ==
    [][\A c \in Clients : StepOf(c) =>
         \A i \in IPs, tk \in Tokens :
             RateId(i, tk) # RateId(ip[c], token[c]) =>
                 LET k == getKeyAndLimit(rl, i, tk).key
                 IN  Held(db', k) = Held(db, k)]_vars

\* A request from ip "a" is allowed while the key of token "a" is blocked.
C10_Witness ==
    /\ out.status = "result" /\ out.result.allowed
    /\ token[out.client] = "" /\ ip[out.client] = "a"
    /\ StorageIsBlocked(db, getKeyAndLimit(rl, "b", "a").key)
    /\ ~StorageIsBlocked(db, out.key)

\* The limit of a token, as configured.
TokenLimit(tk) ==
    IF tk \in DOMAIN rl.tokenLimits THEN rl.tokenLimits[tk] ELSE rl.defaultTokenLimit

\* C11: with a token, the rate key and the limit are those of the token,
\* whatever the ip, and a call is made on the token's key with the token's
\* limit; the key is "ip:<ip>" (with defaultIPLimit) exactly when the token is
\* empty.
C11_TokenPriority ==
    /\ \A i \in IPs, tk \in Tokens :
          LET kl == getKeyAndLimit(rl, i, tk)
          IN  /\ tk = "" <=> kl.key = "ip:" \o i
              /\ tk = "" => kl.limit = rl.defaultIPLimit
              /\ tk # "" => /\ kl.key = "token:" \o tk
                            /\ \A j \in IPs : getKeyAndLimit(rl, j, tk) = kl
    /\ \A c \in Clients :
          (token[c] # "" /\ (pc[c] # "idle" \/ (out.status # "none" /\ out.client = c))) =>
              LET k == IF pc[c] # "idle" THEN key[c] ELSE out.key
                  l == IF pc[c] # "idle" THEN limit[c] ELSE out.limit
              IN  k = "token:" \o token[c] /\ l = TokenLimit(token[c])

\* Two clients send the same token from different ips; the second call on the
\* token's counter is the one from the other ip.
C11_Witness ==
    /\ out.status = "result" /\ out.client = "c2" /\ out.count = 2 /\ out.seen = 1
    /\ token["c1"] = token["c2"] /\ ip["c1"] # ip["c2"]
    /\ out.key = "token:" \o token["c1"]
    /\ Lookup(grants, CountKey(out.key), 0) >= 1

\* C12: a token with a limit of its own is limited by it, also when it is 0
\* or above the default token limit, and any other token by defaultTokenLimit:
\* a call that counts c <= limit is allowed with remaining = limit - c, and a
\* call that counts more is not allowed.
C12_TokenLimitResolution ==
    (out.status = "result" /\ token[out.client] # "") =>
        LET lim == TokenLimit(token[out.client])
        IN  /\ out.limit = lim
            /\ (out.count >= 1 /\ out.count <= lim) =>
                   out.result.allowed /\ out.result.remaining = lim - out.count
            /\ out.count > lim => ~out.result.allowed

\* A token whose own limit is above the default is allowed a call beyond the
\* default token limit.
C12_Witness ==
    /\ out.status = "result" /\ token[out.client] \in DOMAIN rl.tokenLimits
    /\ out.limit > rl.defaultTokenLimit /\ out.count > rl.defaultTokenLimit
    /\ out.result.allowed

\* C13: CheckLimit returns an error, and no decision, exactly when a store
\* call it made failed; after a failed IsBlocked it makes no Increment and no
\* SetBlock call, and after a failed Increment no SetBlock call and no allowed
\* decision.
C13_FailClosed ==
    /\ ret.err =>
          /\ out.status = "error" /\ out.result = NoResult
          /\ pc[out.client] = "idle"
    /\ out.status = "error" => ret.err /\ ret.key = out.key
    /\ (ret.err /\ ret.op = "IsBlocked") =>
          out.calls = <<[op |-> "IsBlocked", key |-> out.key, arg |-> 0]>>
    /\ (ret.err /\ ret.op = "Increment") =>
          /\ CallsOf(out.calls, "SetBlock") = <<>>
          /\ Len(CallsOf(out.calls, "Increment")) = 1
          /\ ~out.result.allowed

\* An Increment failed on a key that was not blocked and had calls left.
C13_Witness ==
    /\ ret.err /\ ret.op = "Increment" /\ out.status = "error"
    /\ ~StorageIsBlocked(db, out.key)
    /\ Lookup(db, CountKey(out.key), [val |-> 0]).val < out.limit

\* C14: when SetBlock fails after an Increment that counted more than the
\* limit, CheckLimit returns an error, the counter keeps its value and the key
\* is not blocked; the next call on the key in the same window (it finds the
\* counter above the limit) increments again and calls SetBlock again.
C14_SetBlockFailureKeepsCount ==
    [][/\ \A c \in Clients :
            (pc[c] = "setBlock" /\ pc'[c] = "idle" /\ ret'.op = "SetBlock" /\ ret'.err) =>
                /\ out'.status = "error" /\ out'.client = c
                /\ db' = db
                /\ ~StorageIsBlocked(db', key[c])
                /\ CountKey(key[c]) \in DOMAIN db => db'[CountKey(key[c])].val = count[c]
       /\ (IncrementDone(out') /\ out'.seen > out'.limit) =>
            /\ out'.count = out'.seen + 1
            /\ CallsOf(out'.calls, "SetBlock") =
                  <<[op |-> "SetBlock", key |-> out'.key, arg |-> rl.blockDuration]>>]_vars

\* A call found the counter of an unblocked key above the limit and blocked it.
C14_Witness ==
    /\ out.status = "result" /\ IncrementDone(out) /\ out.seen > out.limit
    /\ Rejected(out.result) /\ StorageIsBlocked(db, out.key)

\* The rate keys of all requests.
AllRateKeys == {getKeyAndLimit(rl, i, tk).key : i \in IPs, tk \in Tokens}

\* C15: within one lifetime of a counter, the counts returned by the Increment
\* calls on it, concurrent ones included, are pairwise distinct and form a
\* contiguous range: the i-th Increment returns i, none is lost.
C15_IncrementAtomic ==
    \A ck \in DOMAIN issued :
        LET q == issued[ck]
        IN  /\ \A i, j \in 1..Len(q) : i # j => q[i] # q[j]
            /\ {q[i] : i \in 1..Len(q)} = 1..Len(q)
            /\ ck \in DOMAIN db /\ db[ck].val = Len(q)

\* Two calls on one key were both past IsBlocked; one has incremented, the
\* other has not yet, and the counter has been incremented before.
C15_Witness ==
    /\ ret.op = "Increment" /\ ~ret.err /\ ret.val >= 2
    /\ \E c \in Clients : pc[c] = "increment" /\ key[c] = ret.key
    /\ Len(issued[CountKey(ret.key)]) = ret.val

\* C16: every window counter in the store has an expiry, in every state:
\* also between concurrent Increment calls and after a failed Increment.
C16_CounterHasExpiry ==
    \A k \in AllRateKeys :
        CountKey(k) \in DOMAIN db =>
            /\ db[CountKey(k)].ttl # NoExpiry
            /\ db[CountKey(k)].ttl \in 1..Window

\* An Increment has failed on a live counter while another call on the key is
\* about to increment.
C16_Witness ==
    /\ ret.op = "Increment" /\ ret.err
    /\ CountKey(ret.key) \in DOMAIN db
    /\ \E c \in Clients : pc[c] = "increment" /\ key[c] = ret.key

\* C17: the middleware answers an error with 500 and aborts, allowed = false
\* with 429, the fixed error body, and aborts, and allowed = true by running
\* the next handler; the next handler runs exactly when CheckLimit returned
\* allowed = true without error; the X-RateLimit-Remaining and
\* X-RateLimit-Reset headers are set on the 429 and the allowed path, and not
\* on the 500 path.
C17_MiddlewareResponse ==
    out.status # "none" =>
        LET r == out.response
            rejected == out.status = "result" /\ ~out.result.allowed
            passed == out.status = "result" /\ out.result.allowed
        IN  /\ out.status = "error" =>
                  /\ r.code = 500 /\ r.aborted /\ ~r.next
                  /\ DOMAIN r.headers = {}
            /\ rejected =>
                  /\ r.code = 429 /\ r.aborted /\ ~r.next
                  /\ r.body = "you have reached the maximum number of requests or actions allowed within a certain time frame"
            /\ passed => r.next /\ ~r.aborted /\ r.code \notin {429, 500}
            /\ (rejected \/ passed) =>
                  /\ DOMAIN r.headers = {"X-RateLimit-Remaining", "X-RateLimit-Reset"}
                  /\ r.headers["X-RateLimit-Remaining"] = out.result.remaining
                  /\ r.headers["X-RateLimit-Reset"] = out.result.resetTime
            /\ r.next <=> passed
            /\ r.next <=> ~r.aborted

\* A failed store call has been answered with 500.
C17_Witness ==
    /\ out.status = "error" /\ ret.err /\ ret.op = "Increment"
    /\ out.response.code = 500 /\ out.response.aborted

\* The block flag the store holds for rate key k, with its expiry.
BlockHeld(d, k) == [rk \in {BlockKey(k)} \cap DOMAIN d |-> d[rk]]

\* C18: after SetBlock(key, d) succeeds, the key's block expires exactly d
\* later, whatever block the key had before, and no other key's block is
\* changed.
C18_SetBlockOverwrites ==
    [][(ret'.op = "SetBlock" /\ ~ret'.err) =>
         LET k == ret'.key
             d == ret'.arg
         IN  /\ d > 0 => /\ StorageIsBlocked(db', k)
                         /\ db'[BlockKey(k)].ttl = d
             /\ d <= 0 => ~StorageIsBlocked(db', k)
             /\ \A o \in AllRateKeys \ {k} : BlockHeld(db', o) = BlockHeld(db, o)]_vars

\* C19: Close called a second time has the outcome of the first call: no
\* error.
C19_CloseIdempotent ==
    ret.op = "Close" => ~ret.err

\* C20: Get returns the counter's value, or 0 with no error when there is no
\* counter, and leaves the counter's value, its expiry and every block flag
\* as they were; CheckLimit never calls Get.
C20_GetSideEffectFree ==
    [][/\ ret'.op = "Get" =>
            /\ db' = db
            /\ ~ret'.err =>
                  ret'.val = IF CountKey(ret'.key) \in DOMAIN db
                             THEN db[CountKey(ret'.key)].val ELSE 0
            /\ \A c \in Clients : pc'[c] = pc[c] /\ calls'[c] = calls[c]
       /\ \A c \in Clients : StepOf(c) =>
            /\ ret'.op \in {"IsBlocked", "Increment", "SetBlock"}
            /\ CallsOf(calls'[c], "Get") = <<>>
            /\ CallsOf(out'.calls, "Get") = <<>>]_vars

\* Get has returned the value of a counter that is part-way through its
\* window, next to a block flag.
C20_Witness ==
    /\ ret.op = "Get" /\ ~ret.err /\ ret.val >= 1
    /\ db[CountKey(ret.key)].val = ret.val
    /\ db[CountKey(ret.key)].ttl < Window
    /\ \E k \in RateKeys : StorageIsBlocked(db, k)

\* C21: every successful Increment(key, window) sets the counter's expiry to
\* a full window from that call, so the counter expires one window after the
\* most recent increment: no other step extends the expiry, and the counter
\* goes only when its expiry is reached.  An Increment on a live counter
\* returns the previous count plus 1, and one after expiry returns 1.
C21_IncrementRenewsExpiry ==
    [][/\ (ret'.op = "Increment" /\ ~ret'.err) =>
            LET ck == CountKey(ret'.key)
            IN  /\ ck \in DOMAIN db'
                /\ db'[ck].ttl = ret'.arg
                /\ db'[ck].val = ret'.val
                /\ ret'.val = IF ck \in DOMAIN db THEN db[ck].val + 1 ELSE 1
       /\ \A k \in AllRateKeys :
            LET ck == CountKey(k)
            IN  (ck \in DOMAIN db /\ ~(ret'.op = "Increment" /\ ~ret'.err /\ ret'.key = k)) =>
                    /\ ck \in DOMAIN db' =>
                          /\ db'[ck].val = db[ck].val
                          /\ db'[ck].ttl <= db[ck].ttl
                          /\ db'[ck].ttl >= db[ck].ttl - 1
                    /\ ck \notin DOMAIN db' => db[ck].ttl = 1]_vars

\* An Increment on a counter that was part-way through its window has
\* returned 2 and left the counter with a full window to live, while the
\* counter of another key has aged.
C21_Witness ==
    /\ ret.op = "Increment" /\ ~ret.err /\ ret.val = 2
    /\ db[CountKey(ret.key)].ttl = Window
    /\ \E k \in AllRateKeys : /\ CountKey(k) \in DOMAIN db
                              /\ db[CountKey(k)].ttl < Window

\* The states of a rate key: Fresh (no counter, no block), Counting (a
\* counter, no block), Blocked (a block flag).
KeyFresh(d, k) == CountKey(k) \notin DOMAIN d /\ BlockKey(k) \notin DOMAIN d
KeyCounting(d, k) == CountKey(k) \in DOMAIN d /\ BlockKey(k) \notin DOMAIN d
KeyBlocked(d, k) == BlockKey(k) \in DOMAIN d

\* This step is client c's Increment, applied to a Fresh key.
FirstIncrement(c) ==
    /\ pc[c] = "increment" /\ KeyFresh(db, key[c])
    /\ ret'.op = "Increment" /\ ~ret'.err /\ pc'[c] # "increment"

\* This step is client c's SetBlock, which did not fail.
BlockSet(c) ==
    pc[c] = "setBlock" /\ pc'[c] = "idle" /\ ret'.op = "SetBlock" /\ ~ret'.err

\* The key stays Counting while count <= limit: a call that counted no more
\* than the limit is allowed and does not block the key (it makes no SetBlock
\* call and leaves the key's block flag as it was).
StaysCounting ==
    (out'.status = "result" /\ out'.count >= 1 /\ out'.count <= out'.limit) =>
        /\ out'.result.allowed
        /\ CallsOf(out'.calls, "SetBlock") = <<>>
        /\ KeyBlocked(db', out'.key) = KeyBlocked(db, out'.key)

\* The key becomes Blocked only by the SetBlock of a CheckLimit whose
\* post-increment count exceeds the limit.
BlockedOnlyByExcess ==
    \A k \in AllRateKeys :
        (~KeyBlocked(db, k) /\ KeyBlocked(db', k)) =>
            /\ ret'.op = "SetBlock" /\ ret'.key = k
            /\ \E c \in Clients : /\ pc[c] = "setBlock" /\ key[c] = k
                                  /\ count[c] > limit[c]
                                  /\ out'.client = c /\ Rejected(out'.result)

\* C22 as stated: the first CheckLimit on a Fresh key counts 1, leaves the
\* key Counting and returns allowed = true, for every limit (0 and negative
\* limits included); the key stays Counting while count <= limit and becomes
\* Blocked only by a CheckLimit whose post-increment count exceeds the limit.
C22_FirstCallAlwaysAllowed ==
    [][/\ \A c \in Clients : FirstIncrement(c) =>
            /\ ret'.val = 1
            /\ KeyCounting(db', key[c]) /\ db'[CountKey(key[c])].val = 1
            /\ out'.status = "result" /\ out'.client = c /\ out'.result.allowed
       /\ StaysCounting
       /\ BlockedOnlyByExcess]_vars

\* C22, amended: the first CheckLimit on a Fresh key counts 1 and the key is
\* Counting; with a limit of at least 1 the call returns allowed = true, and
\* with a limit of 0 or below the count exceeds the limit, so the call goes on
\* to SetBlock and, unless that fails, returns allowed = false and leaves the
\* key Blocked.  The key stays Counting while count <= limit and becomes
\* Blocked only by a CheckLimit whose post-increment count exceeds the limit.
C22_KeyStateMachine ==
    [][/\ \A c \in Clients : FirstIncrement(c) =>
            /\ ret'.val = 1
            /\ KeyCounting(db', key[c]) /\ db'[CountKey(key[c])].val = 1
            /\ limit[c] >= 1 =>
                  out'.status = "result" /\ out'.client = c /\ out'.result.allowed
            /\ limit[c] <= 0 =>
                  /\ pc'[c] = "setBlock" /\ count'[c] = 1
                  /\ out'.status = "none"
       /\ \A c \in Clients : BlockSet(c) =>
            /\ count[c] > limit[c]
            /\ out'.status = "result" /\ out'.client = c /\ Rejected(out'.result)
            /\ KeyBlocked(db', key[c])
       /\ StaysCounting
       /\ BlockedOnlyByExcess]_vars

\* The first call on a Fresh key whose limit is negative has counted 1, has
\* been rejected, and the key is Blocked.
C22_Witness ==
    /\ out.status = "result" /\ IncrementDone(out) /\ out.seen = 0
    /\ out.count = 1 /\ out.limit < 0
    /\ Rejected(out.result) /\ KeyBlocked(db, out.key)

\* The order in which CheckLimit calls the store.
CallOrder == <<"IsBlocked", "Increment", "SetBlock">>

\* A call's log names at most the three store calls, each once, in order, all
\* on rate key k.
InCallOrder(log, k) ==
    /\ Len(log) <= Len(CallOrder)
    /\ \A i \in 1..Len(log) : log[i].op = CallOrder[i] /\ log[i].key = k

\* C23: a CheckLimit call makes at most three store calls, each at most once
\* and in the order IsBlocked, Increment, SetBlock, SetBlock only when
\* count > limit; it makes no call after a failed one (no retry), never calls
\* Get or Close, and has returned once its last store call has returned.
C23_StoreCallsInOrder ==
    /\ \A c \in Clients :
          /\ pc[c] = "idle" => calls[c] = <<>>
          /\ pc[c] = "increment" => Len(calls[c]) = 1 /\ InCallOrder(calls[c], key[c])
          /\ pc[c] = "setBlock" =>
                /\ Len(calls[c]) = 2 /\ InCallOrder(calls[c], key[c])
                /\ count[c] > limit[c]
    /\ ret.op \in {"", "IsBlocked", "Increment", "SetBlock"}
    /\ out.status # "none" =>
          /\ Len(out.calls) >= 1 /\ InCallOrder(out.calls, out.key)
          /\ Len(out.calls) = 3 => out.count > out.limit
          /\ ret.op = out.calls[Len(out.calls)].op /\ ret.key = out.key
          /\ out.status = "error" <=> ret.err
          /\ (out.status = "result" /\ Len(out.calls) = 2) =>
                out.result.allowed /\ out.count <= out.limit
          /\ pc[out.client] = "idle"

\* A call has returned an error after its third store call, SetBlock, failed:
\* the key is not blocked and the call is over.
C23_Witness ==
    /\ out.status = "error" /\ Len(out.calls) = 3 /\ ret.op = "SetBlock" /\ ret.err
    /\ ~StorageIsBlocked(db, out.key) /\ pc[out.client] = "idle"

\* The rate key of client c's requests.
KeyOf(c) == getKeyAndLimit(rl, ip[c], token[c]).key

C25_DecisionInvariants ==
    /\ out.status = "result" =>
          LET r == out.result
          IN  /\ r.allowed = ~r.blocked
              /\ r.remaining >= 0
              /\ ~r.allowed => r.remaining = 0
              /\ r.allowed =>
                    /\ out.count >= 1 /\ out.count <= out.limit
                    /\ r.remaining = out.limit - out.count
                    /\ r.remaining <= out.limit - 1
              /\ ~ret.err
    /\ out.status = "error" => out.result = NoResult /\ ret.err

\* A call is allowed with remaining >= 1 while another call on the same key
\* is between its store calls.
C25_Witness ==
    /\ out.status = "result" /\ out.result.allowed /\ out.result.remaining >= 1
    /\ \E c \in Clients : pc[c] # "idle" /\ key[c] = out.key

\* C26: with sequential requests and a block duration of at least one window,
\* the resetTime of a rejected decision is never earlier than the moment the
\* key's block expires: when the decision is returned, the block has an
\* expiry and no more time to live than resetTime is away, and no later step
\* lengthens the life of a block, so the block is gone at resetTime.
C26_ResetTimeSafe ==
    /\ [](/\ out.status = "result" /\ ~out.result.allowed
          /\ rl.blockDuration >= Window
          => /\ out.result.resetTime = rl.blockDuration
             /\ KeyBlocked(db, out.key)
             /\ db[BlockKey(out.key)].ttl # NoExpiry
             /\ db[BlockKey(out.key)].ttl <= out.result.resetTime)
    /\ [][rl.blockDuration >= Window =>
            \A k \in AllRateKeys :
                (KeyBlocked(db, k) /\ KeyBlocked(db', k)) =>
                    db'[BlockKey(k)].ttl <= db[BlockKey(k)].ttl]_vars

\* A request has been rejected on a block that was set earlier: the block
\* expires before the resetTime of this decision.
C26_Witness ==
    /\ out.status = "result" /\ Rejected(out.result) /\ Len(out.calls) = 1
    /\ rl.blockDuration >= Window
    /\ db[BlockKey(out.key)].ttl >= 1
    /\ db[BlockKey(out.key)].ttl < out.result.resetTime

\* C27: the engine holds no mutable state: no step changes the limit policy
\* or a field of an engine, every engine's fields are the policy's, and every
\* store call that a request makes through one of two engines sharing the
\* store is, from the same state, a store call that the request makes through
\* the other engine: same reply, same store state after it, same decision.
\* So the store states and decisions of requests split across the two engines
\* are those of one engine receiving the same requests.
C27_EnginesEquivalent ==
    [][/\ rl' = rl /\ engines' = engines
       /\ \A e \in Clients : engines[e] = rl
       /\ \A c \in Clients : StepOf(c) =>
            \A e \in Clients :
                \/ IsBlockedVia(engines[e], c)
                \/ IncrementCall(c)
                \/ SetBlockVia(engines[e], c)]_vars

\* The request of client c2, served by its own engine, has counted 2 on the
\* counter that a request of client c1, served by the other engine, is about
\* to increment.
C27_Witness ==
    /\ out.status = "result" /\ out.client = "c2" /\ out.count = 2
    /\ pc["c1"] = "increment" /\ key["c1"] = out.key
    /\ engines["c1"] = engines["c2"]

\* The counter the store holds for rate key k, with its expiry.
CountHeld(d, k) == [rk \in {CountKey(k)} \cap DOMAIN d |-> d[rk]]

\* C28: counters and block flags live under different store keys: for all
\* rate keys k1 and k2, Increment(k1) leaves the block flag of k2 and its
\* expiry as they were, SetBlock(k1) leaves the counter of k2 and its expiry
\* as they were, and when time passes a store key goes only on its own
\* expiry: a counter's expiry clears no block and a block's no counter.
C28_DisjointKeyspaces ==
    [][/\ \A k1, k2 \in AllRateKeys : CountKey(k1) # BlockKey(k2)
       /\ ret'.op = "Increment" =>
             \A k2 \in AllRateKeys : BlockHeld(db', k2) = BlockHeld(db, k2)
       /\ ret'.op = "SetBlock" =>
             \A k2 \in AllRateKeys : CountHeld(db', k2) = CountHeld(db, k2)
       /\ ret'.op = "" =>
             \A rk \in DOMAIN db :
                 /\ rk \notin DOMAIN db' => db[rk].ttl = 1
                 /\ rk \in DOMAIN db' =>
                       /\ db[rk].ttl # 1
                       /\ db'[rk].val = db[rk].val]_vars

\* SetBlock has blocked a key whose counter is live and part-way through
\* its window, while another key is blocked.
C28_Witness ==
    /\ ret.op = "SetBlock" /\ ~ret.err
    /\ BlockKey(ret.key) \in DOMAIN db /\ CountKey(ret.key) \in DOMAIN db
    /\ db[CountKey(ret.key)].ttl < Window
    /\ \E k \in AllRateKeys \ {ret.key} : BlockKey(k) \in DOMAIN db

\* The connection address of a request: the host of RemoteAddr, or RemoteAddr
\* whole when it has no port.
ConnectionAddress(rq) ==
    IF \E i \in 1..Len(rq.remoteAddr) : rq.remoteAddr[i] = ":"
    THEN String(SplitHostPort(rq.remoteAddr).host)
    ELSE String(rq.remoteAddr)

\* The key of the call client c is making, or has just returned from.
CallKeys(c) ==
    (IF pc[c] # "idle" THEN {key[c]} ELSE {}) \cup
    (IF out.status # "none" /\ out.client = c THEN {out.key} ELSE {})

====
